---- MODULE Spec2Model ----
(***************************************************************************)
(* Model of dipy/workflows/vis_registeration.py, class                     *)
(* VisualizeRegisteredImage: the image normaliser (process_image_data),    *)
(* the mosaic row/column solver (get_row_cols), the mosaic composer        *)
(* (create_mosaic), the colour-depth reduction (adjust_color_range), the   *)
(* two animation composers and the orchestrator (run).                     *)
(*                                                                         *)
(* Volumes are records [dtype, shape, data]: data is the row-major list of *)
(* voxels, dtype the numpy integer type the file was stored with (nibabel  *)
(* get_data returns the on-disk type), shape the voxel grid.               *)
(***************************************************************************)
EXTENDS Integers, Sequences, FiniteSets, TLC

VARIABLES
    pc,               \* position of the interpreter
    gn,               \* get_row_cols: the argument num_slices
    rowcols,          \* get_row_cols: the returned (rows, cols)
    static_img,       \* the static volume in hand
    moved_img,        \* the moving volume in hand
    type_vis,         \* process_image_data: the mode tag
    cast_mode,        \* how this build converts an out-of-range float to uint8
    proc_result,      \* process_image_data: what the last call returned
    img,              \* adjust_color_range: the image in hand
    img_in,           \* adjust_color_range: the image before the first pass
    img_first,        \* adjust_color_range: the image after the first pass
    passes,           \* adjust_color_range: number of passes applied
    batch,            \* run: the input triples of the io iterator
    show_mosaic,      \* run: the show_mosaic flag
    anim_slice_type,  \* run: the anim_slice_type argument
    idx,              \* run: index of the triple being processed
    error,            \* the exception that left the program, or "none"
    events,           \* calls made so far, in order: <<name, triple>>
    files,            \* writes of output files so far, in order
    disk,             \* content of each output file
    logs,             \* messages logged so far
    num_slices,       \* composer local num_slices
    slice_type,       \* animation composer local slice_type (-1: unbound)
    rows,             \* create_mosaic local rows
    cols,             \* create_mosaic local cols
    mj,               \* create_mosaic outer loop variable j
    mi,               \* create_mosaic inner loop variable i
    cnt,              \* create_mosaic local cnt
    displayed,        \* indices passed to display(None, None, cnt), in order
    scene,            \* actors held by the renderer, in order of addition
    slices,           \* animation composer local slices (the frame list)
    ai,               \* animation composer loop variable i
    variant,          \* which animation composer is running
    gifs              \* calls of write_gif so far

vars == <<pc, gn, rowcols, static_img, moved_img, type_vis, cast_mode,
          proc_result, img, img_in, img_first, passes, batch, show_mosaic,
          anim_slice_type, idx, error, events, files, disk, logs,
          num_slices,
          slice_type, rows, cols, mj, mi, cnt, displayed, scene, slices, ai,
          variant, gifs>>

outVars == <<files, disk>>

solverVars == <<gn, rowcols>>
normVars == <<type_vis, proc_result>>
colorVars == <<img, img_in, img_first, passes>>
inputVars == <<batch, show_mosaic, anim_slice_type>>
mosaicVars == <<rows, cols, mj, mi, cnt, displayed>>
animVars == <<slice_type, slices, ai, variant, gifs>>
aloneVars == <<gn, rowcols, type_vis, img, img_in, img_first, passes>>
argVars == <<batch, show_mosaic, anim_slice_type, cast_mode>>
volVars == <<static_img, moved_img>>

----------------------------------------------------------------------------
(* Bounds of the model *)

MaxN == 60          \* largest slice count given to get_row_cols
NumVoxels == 3      \* voxels per volume when the normaliser is called alone
NumPixels == 3      \* pixels per image given to adjust_color_range
MaxBatch == 2       \* largest number of input triples of one run

----------------------------------------------------------------------------
(* Helpers *)

None == "None"

Range(s) == {s[k] : k \in DOMAIN s}

Min(S) == CHOOSE x \in S : \A y \in S : x <= y

Max(S) == CHOOSE x \in S : \A y \in S : x >= y

RECURSIVE SumSeq(_)
SumSeq(s) == IF s = <<>> THEN 0 ELSE Head(s) + SumSeq(Tail(s))

RECURSIVE Prod(_)
Prod(s) == IF s = <<>> THEN 1 ELSE Head(s) * Prod(Tail(s))

\* Python int(): truncation toward zero of the quotient a / b, b # 0
TruncDiv(a, b) ==
    LET q == (IF a < 0 THEN -a ELSE a) \div (IF b < 0 THEN -b ELSE b)
    IN IF (a < 0) = (b < 0) THEN q ELSE -q

\* floor of the square root, by bisection on lo..hi
RECURSIVE ISqrtIn(_, _, _)
ISqrtIn(lo, hi, d) ==
    IF lo >= hi THEN lo
    ELSE LET mid == (lo + hi + 1) \div 2
         IN IF mid * mid <= d THEN ISqrtIn(mid, hi, d)
            ELSE ISqrtIn(lo, mid - 1, d)

----------------------------------------------------------------------------
(* get_row_cols, lines 48-73 *)

\* lines 61-64: while True: if num_slices % 5 == 0: break; num_slices += 1
RECURSIVE PadTo5(_)
PadTo5(n) == IF n % 5 = 0 THEN n ELSE PadTo5(n + 1)

\* lines 66-71: for i in range(5, num_slices): first i dividing num_slices;
\* 0 when the range is exhausted (rows, cols keep their initial 0, 0)
RECURSIVE FirstDivisor(_, _)
FirstDivisor(i, n) ==
    IF i >= n THEN 0
    ELSE IF n % i = 0 THEN i
    ELSE FirstDivisor(i + 1, n)

get_row_cols(n) ==
    LET padded == PadTo5(n)
        r == FirstDivisor(5, padded)
    IN IF r = 0 THEN <<0, 0>> ELSE <<r, padded \div r>>

----------------------------------------------------------------------------
(* numpy arithmetic used by process_image_data *)

DTypes == {"uint8", "int16"}

\* integer arithmetic on an array keeps the array's width and wraps
Wrap(x, dtype) ==
    IF dtype = "uint8" THEN x % 256
    ELSE ((x + 32768) % 65536) - 32768

\* The conversion of NaN or of an out-of-range float to uint8 is undefined;
\* builds produce one of three results: "wrap" keeps the low byte of the
\* value converted to a signed integer (0 for NaN and inf), "saturate" clamps
\* (0 for NaN), "ones" gives all ones.
CastModes == {"wrap", "saturate", "ones"}

\* overlay[..., c] = 255 * (num / den): the float 255 * num / den stored into
\* a uint8 array.  In range the store truncates toward zero.  den = 0 gives
\* 0/0 = NaN or k/0 = inf; numpy warns and goes on, nothing is raised.
ToUint8(num, den, cm) ==
    IF den = 0
    THEN IF cm = "ones" THEN 255
         ELSE IF cm = "saturate" /\ num > 0 THEN 255
         ELSE 0
    ELSE LET t == TruncDiv(255 * num, den)
         IN IF t >= 0 /\ t <= 255 THEN t
            ELSE IF cm = "ones" THEN 255
            ELSE IF cm = "wrap" THEN t % 256
            ELSE IF t < 0 THEN 0 ELSE 255

\* lines 31-34: 255 * ((a - a.min()) / (a.max() - a.min())), as stored into
\* the uint8 overlay by lines 38-39
Normalize(vol, cm) ==
    LET mn == Min(Range(vol.data))
        mx == Max(Range(vol.data))
        den == Wrap(mx - mn, vol.dtype)
    IN [k \in DOMAIN vol.data |->
            ToUint8(Wrap(vol.data[k] - mn, vol.dtype), den, cm)]

\* numpy broadcasting of a value of shape m into a target of shape s (the
\* store of line 39); leading dimensions of length 1 in excess are dropped
RECURSIVE StripOnes(_, _)
StripOnes(m, n) ==
    IF Len(m) > n /\ m[1] = 1 THEN StripOnes(Tail(m), n) ELSE m

Broadcastable(m, s) ==
    LET mm == StripOnes(m, Len(s))
        off == Len(s) - Len(mm)
    IN /\ off >= 0
       /\ \A d \in 1..Len(mm) : mm[d] = s[d + off] \/ mm[d] = 1

Stride(s, d) == Prod(SubSeq(s, d + 1, Len(s)))

Unravel(k, s) == [d \in 1..Len(s) |-> (k \div Stride(s, d)) % s[d]]

Ravel(ix, s) == SumSeq([d \in 1..Len(s) |-> ix[d] * Stride(s, d)])

\* 1-based position in a value of shape m of the element broadcast to the
\* 1-based position k of a target of shape s
BroadcastAt(k, m, s) ==
    LET mm == StripOnes(m, Len(s))
        off == Len(s) - Len(mm)
        ix == Unravel(k - 1, s)
        mix == [d \in 1..Len(mm) |-> IF mm[d] = 1 THEN 0 ELSE ix[d + off]]
    IN Ravel(mix, mm) + 1

\* line 40 and lines 42/44: mean and std of overlay[overlay > 0], and the
\* pair (mean - 0.5 * std, mean + 1.5 * std), each floored to an integer;
\* "nan" when no overlay value is positive (mean of an empty selection).
\* With n values of sum s and sum of squares ss, n * std = sqrt(n*ss - s*s).
ValueRange(ch0, ch1) ==
    LET pos == SelectSeq(ch0 \o ch1, LAMBDA v : v > 0)
        n == Len(pos)
        s == SumSeq(pos)
        ss == SumSeq([k \in DOMAIN pos |-> pos[k] * pos[k]])
        r == ISqrtIn(0, n * 255, n * ss - s * s)
    IN IF n = 0 THEN <<"nan", "nan">>
       ELSE <<(2 * s - r) \div (2 * n), (2 * s + 3 * r) \div (2 * n)>>

NoOverlay == [shape |-> <<>>, ch0 |-> <<>>, ch1 |-> <<>>, ch2 |-> <<>>]

NoResult == [status |-> "none", overlay |-> NoOverlay,
             value_range |-> <<"nan", "nan">>]

(* process_image_data, lines 16-46 *)
process_image_data(static, moved, tv, cm) ==
    LET ch0 == Normalize(static, cm)
        mnorm == Normalize(moved, cm)
        ch1 == [k \in DOMAIN static.data |->
                    mnorm[BroadcastAt(k, moved.shape, static.shape)]]
        ch2 == [k \in DOMAIN static.data |-> 0]
    IN IF ~Broadcastable(moved.shape, static.shape)
       THEN [NoResult EXCEPT !.status = "ValueError: could not broadcast"]
       ELSE IF tv \notin {"mosaic", "anim"}
       THEN [NoResult EXCEPT !.status = "UnboundLocalError: value_range"]
       ELSE [status |-> "ok",
             overlay |-> [shape |-> static.shape \o <<3>>,
                          ch0 |-> ch0, ch1 |-> ch1, ch2 |-> ch2],
             value_range |-> ValueRange(ch0, ch1)]

----------------------------------------------------------------------------
(* adjust_color_range, lines 124-147, on an 8-bit image: a list of pixels, *)
(* each <<channel 0, channel 1, channel 2>>                                *)

\* np.interp(x, (x0, x1), (y0, y1)) stored into a uint8 channel: the store
\* truncates.  x >= x1 gives y1 (also when x0 = x1); otherwise the value is
\* slope * (x - x0) + y0 with slope = (y1 - y0) / (x1 - x0).  The floats agree
\* with the exact quotient below except for x1 - x0 in {231, 235} going down
\* to 0..15; the pixel values of the model keep clear of those spreads.
InterpStore(x, x0, x1, y0, y1) ==
    IF x >= x1 THEN y1
    ELSE y0 + ((y1 - y0) * (x - x0)) \div (x1 - x0)

Channel(im, c) == [k \in DOMAIN im |-> im[k][c]]

\* img[..., c] = np.interp(img[..., c], (min, max), (0, top))
InterpChannel(ch, top) ==
    LET mn == Min(Range(ch))
        mx == Max(Range(ch))
    IN [k \in DOMAIN ch |-> InterpStore(ch[k], mn, mx, 0, top)]

\* lines 135-139: down to the 16 levels; np.round of an integer array and
\* astype('uint8') change nothing
ReduceLevels(ch) == InterpChannel(ch, 15)

\* lines 142-145 with the fixed range (0, 16) in place of (min, max)
RestoreLevelsFixedRange(ch) ==
    [k \in DOMAIN ch |-> InterpStore(ch[k], 0, 16, 0, 255)]

\* lines 142-145: back up to 0..255
RestoreLevels(ch) == InterpChannel(ch, 255)

adjust_color_range(im) ==
    LET c0 == RestoreLevels(ReduceLevels(Channel(im, 1)))
        c1 == RestoreLevels(ReduceLevels(Channel(im, 2)))
    IN [k \in DOMAIN im |-> <<c0[k], c1[k], im[k][3]>>]

----------------------------------------------------------------------------
(* Values of the variables a specification does not use *)

\* the two output files, mosaic_file and animate_file, neither written yet
NoFiles == [f \in {"mosaic.png", "animation.gif"} |-> <<>>]

NoVolume == [dtype |-> "uint8", shape |-> <<>>, data |-> <<>>]

IdleSolver == gn = 0 /\ rowcols = <<>>

IdleVolumes == static_img = NoVolume /\ moved_img = NoVolume

IdleNorm == type_vis = None /\ proc_result = NoResult

IdleColor == img = <<>> /\ img_in = <<>> /\ img_first = <<>> /\ passes = 0

IdleRun ==
    /\ batch = <<>> /\ show_mosaic = FALSE /\ anim_slice_type = None
    /\ idx = 0 /\ events = <<>> /\ files = <<>> /\ disk = NoFiles
    /\ logs = <<>>

IdleMosaic ==
    /\ rows = 0 /\ cols = 0 /\ mj = 0 /\ mi = 0 /\ cnt = 0
    /\ displayed = <<>>

IdleAnim ==
    /\ num_slices = 0 /\ slice_type = -1 /\ slices = <<>> /\ ai = 0
    /\ variant = None /\ gifs = <<>> /\ scene = <<>>

----------------------------------------------------------------------------
(* get_row_cols called on its own *)

InitSolver ==
    /\ pc = "solver_call"
    /\ gn \in 1..MaxN
    /\ rowcols = <<>>
    /\ cast_mode = "wrap" /\ error = "none"
    /\ IdleVolumes /\ IdleNorm /\ IdleColor /\ IdleRun /\ IdleMosaic
    /\ IdleAnim

GetRowColsCall ==
    /\ pc = "solver_call"
    /\ rowcols' = get_row_cols(gn)
    /\ pc' = "solver_ret"
    /\ UNCHANGED <<gn, static_img, moved_img, cast_mode, normVars, colorVars,
                   inputVars, idx, error, events, outVars, logs, num_slices,
                   mosaicVars, scene, animVars>>

NextSolver == GetRowColsCall

SpecSolver == InitSolver /\ [][NextSolver]_vars

\* C1: for every slice count n >= 1 get_row_cols(n) returns (rows, cols) with
\* rows >= 5, rows * cols >= n and rows * cols the smallest multiple of 5 that
\* is >= n; it never returns rows = 0 or cols = 0.
C1_RowColsContract ==
    pc = "solver_ret" =>
        /\ rowcols[1] >= 5
        /\ rowcols[1] # 0 /\ rowcols[2] # 0
        /\ rowcols[1] * rowcols[2] >= gn
        /\ (rowcols[1] * rowcols[2]) % 5 = 0
        /\ rowcols[1] * rowcols[2] - gn < 5

----------------------------------------------------------------------------
(* process_image_data called on its own, on two volumes of the same shape *)

VoxelValues(dtype) ==
    IF dtype = "uint8" THEN {3, 100, 250} ELSE {-20000, 0, 20000}

NormVolumes ==
    UNION {{[dtype |-> d, shape |-> <<1, 1, NumVoxels>>, data |-> f] :
                f \in [1..NumVoxels -> VoxelValues(d)]} : d \in DTypes}

IsConstant(vol) == Max(Range(vol.data)) = Min(Range(vol.data))

InitNorm ==
    /\ pc = "norm_call"
    /\ static_img \in NormVolumes
    /\ moved_img \in NormVolumes
    /\ type_vis \in {"mosaic", "anim"}
    /\ cast_mode \in CastModes
    /\ proc_result = NoResult
    /\ error = "none"
    /\ IdleSolver /\ IdleColor /\ IdleRun /\ IdleMosaic /\ IdleAnim

ProcessImageDataCall ==
    /\ pc = "norm_call"
    /\ proc_result' =
           process_image_data(static_img, moved_img, type_vis, cast_mode)
    /\ pc' = "norm_ret"
    /\ UNCHANGED <<solverVars, static_img, moved_img, type_vis, cast_mode,
                   colorVars, inputVars, idx, error, events, outVars, logs,
                   num_slices, mosaicVars, scene, animVars>>

NextNorm == ProcessImageDataCall

SpecNorm == InitNorm /\ [][NextNorm]_vars

\* C4: when either input volume of process_image_data is constant (max = min)
\* the call ends in an explicit error; it never returns an overlay or a value
\* range computed from the undefined scale factor.
C4_ConstantVolumeRaises ==
    (pc = "norm_ret" /\ (IsConstant(static_img) \/ IsConstant(moved_img)))
        => proc_result.status \notin {"ok", "none"}

\* the exact linear rescaling of value v from [mn, mx] to [0, 255], truncated
Rescaled(v, mn, mx) == (255 * (v - mn)) \div (mx - mn)

RescaledVolume(vol) ==
    [k \in DOMAIN vol.data |->
        Rescaled(vol.data[k], Min(Range(vol.data)), Max(Range(vol.data)))]

\* C5: for two same-shaped integer volumes with distinct min and max, the
\* overlay has in channel 0 the static value linearly rescaled from its
\* [min, max] to [0, 255] and truncated, in channel 1 the same for the moving
\* value with the moving volume's own min and max, both within 0..255 with the
\* minimum voxel at 0 and the maximum voxel at 255, and channel 2 = 0.
C5_OverlayIsLinearRescale ==
    (pc = "norm_ret" /\ ~IsConstant(static_img) /\ ~IsConstant(moved_img))
        => /\ proc_result.status = "ok"
           /\ proc_result.overlay.ch0 = RescaledVolume(static_img)
           /\ proc_result.overlay.ch1 = RescaledVolume(moved_img)
           /\ \A k \in DOMAIN proc_result.overlay.ch2 :
                  proc_result.overlay.ch2[k] = 0

----------------------------------------------------------------------------
(* adjust_color_range called twice in a row on an image *)

Pixels == {0, 9, 100, 255} \X {0, 100, 255} \X {0, 7}

Images == [1..NumPixels -> Pixels]

InitColor ==
    /\ pc = "color_call"
    /\ img \in Images
    /\ img_in = img
    /\ img_first = <<>>
    /\ passes = 0
    /\ cast_mode = "wrap" /\ error = "none"
    /\ IdleSolver /\ IdleVolumes /\ IdleNorm /\ IdleRun /\ IdleMosaic
    /\ IdleAnim

AdjustColorRangeCall ==
    /\ pc = "color_call"
    /\ passes < 2
    /\ img' = adjust_color_range(img)
    /\ img_first' = IF passes = 0 THEN img' ELSE img_first
    /\ passes' = passes + 1
    /\ UNCHANGED <<pc, solverVars, static_img, moved_img, cast_mode, normVars,
                   img_in, inputVars, idx, error, events, outVars, logs,
                   num_slices, mosaicVars, scene, animVars>>

NextColor == AdjustColorRangeCall

SpecColor == InitColor /\ [][NextColor]_vars

Levels16 == {17 * q : q \in 0..15}

FullRange(im) ==
    /\ im # <<>>
    /\ {0, 255} \subseteq Range(Channel(im, 1))
    /\ {0, 255} \subseteq Range(Channel(im, 2))

\* C9: for every 8-bit image whose channels 0 and 1 each contain both 0 and
\* 255, one pass of adjust_color_range leaves in channels 0 and 1 only values
\* among the 16 levels 0, 17, ..., 255, a second pass returns the image of the
\* first pass, and channel 2 is unchanged by both passes.
C9_ColorReductionIdempotent ==
    (FullRange(img_in) /\ passes >= 1) =>
        /\ Range(Channel(img_first, 1)) \subseteq Levels16
        /\ Range(Channel(img_first, 2)) \subseteq Levels16
        /\ passes = 2 => img = img_first
        /\ Channel(img, 3) = Channel(img_in, 3)

\* a full-range image with an off-level value has gone through both passes
C9_Witness ==
    /\ passes = 2
    /\ FullRange(img_in)
    /\ 9 \in Range(Channel(img_in, 1))
    /\ 100 \in Range(Channel(img_in, 2))
    /\ img_first # img_in

----------------------------------------------------------------------------
(* Names and exceptions *)

\* names bound at module level, lines 1-14
ModuleNames ==
    {"division", "print_function", "absolute_import", "Workflow", "logging",
     "np", "nib", "write_gif", "load_affine_matrix", "overlay_slices",
     "window", "actor", "snapshot", "VisualizeRegisteredImage"}

\* parameters and locals of create_mosaic, lines 75-112
MosaicLocals ==
    {"self", "static_img", "moved_img", "affine", "fname", "overlay",
     "value_range", "renderer", "slice_actor", "cnt", "_", "num_slices",
     "rows", "cols", "border", "j", "i", "slice_mosaic"}

\* line 105 reads X, Y, border, i, cols and j
NamesReadBySetPosition == {"X", "border", "i", "cols", "Y", "j"}

SetPositionNamesBound ==
    NamesReadBySetPosition \subseteq (ModuleNames \cup MosaicLocals)

DimensionMismatch == "ValueError: Dimension mismatch"

NameErrorX == "NameError: name 'X' is not defined"

UnpackError == "ValueError: values to unpack"

\* run with the body of its loop in a try/except that goes on to the end of
\* the body
AfterRaiseCaught == "log"

\* run has no try/except (lines 303-330): an exception raised in the body of
\* the loop leaves run
AfterRaise == "raised"

\* check_dimensions comparing the static volume with itself
check_dimensions_self(static, moving) ==
    IF Len(static.shape) # Len(static.shape) THEN DimensionMismatch ELSE "ok"

(* check_dimensions, lines 255-263 *)
check_dimensions(static, moving) ==
    IF Len(static.shape) # Len(moving.shape) THEN DimensionMismatch ELSE "ok"

----------------------------------------------------------------------------
(* The renderer and the slices *)

\* a renderer that is cleared before each addition
RendererReplace(sc, a) == <<a>>

\* renderer.add, lines 109 and 245: the actor joins those already there
RendererAdd(sc, a) == Append(sc, a)

\* the selector with the lengths of axes 0 and 1 exchanged
SelectSlicesSwapped(sli_type, shape) ==
    IF sli_type = "saggital" THEN [num_slices |-> shape[2], slice_type |-> 0]
    ELSE IF sli_type = "coronal"
    THEN [num_slices |-> shape[1], slice_type |-> 1]
    ELSE IF sli_type = "axial"
    THEN [num_slices |-> shape[3], slice_type |-> 2]
    ELSE [num_slices |-> 0, slice_type |-> -1]

\* lines 221-231 (and 177-187): the selector gives the loop bound and the axis
SelectSlices(sli_type, shape) ==
    IF sli_type = "saggital" THEN [num_slices |-> shape[1], slice_type |-> 0]
    ELSE IF sli_type = "coronal"
    THEN [num_slices |-> shape[2], slice_type |-> 1]
    ELSE IF sli_type = "axial"
    THEN [num_slices |-> shape[3], slice_type |-> 2]
    ELSE [num_slices |-> 0, slice_type |-> -1]

\* rasters the renderer may hand back from snapshot (line 248)
SnapImages ==
    {<<<<0, 0, 0>>, <<255, 255, 0>>>>, <<<<0, 255, 0>>, <<100, 9, 0>>>>}

\* write_gif of dipy.workflows.core, called at lines 198 and 253: the frames
\* become the content of the file
write_gif(d, frames, fname) == [d EXCEPT ![fname] = frames]

\* window.record of dipy.viz, called at lines 121-122: the scene is captured
\* to a raster of the given size and written to the output path
record(d, shown, fname, size) ==
    [d EXCEPT ![fname] = <<[size |-> size, shown |-> shown]>>]

\* line 250 (and 195): slices.append
AppendFrame(fr, f) == Append(fr, f)

----------------------------------------------------------------------------
(* create_mosaic, lines 75-122 *)

\* lines 85-99: overlay, renderer, slicer, slice count, layout
MosaicEnter ==
    LET r == process_image_data(static_img, moved_img, "mosaic", cast_mode)
        rc == get_row_cols(r.overlay.shape[3])
    IN /\ events' = Append(events, <<"create_mosaic", idx>>)
       /\ proc_result' = r
       /\ IF r.status # "ok"
          THEN /\ error' = r.status
               /\ pc' = AfterRaise
               /\ UNCHANGED <<num_slices, mosaicVars, scene>>
          ELSE /\ scene' = <<>>
               /\ cnt' = 0
               /\ num_slices' = r.overlay.shape[3]
               /\ rows' = rc[1]
               /\ cols' = rc[2]
               /\ mj' = 0
               /\ mi' = 0
               /\ displayed' = <<>>
               /\ pc' = "mosaic_loop"
               /\ UNCHANGED error

\* lines 101-116: one pass through the body of the two loops
MosaicPlace ==
    /\ pc = "mosaic_loop"
    /\ mj < rows
    /\ mi < cols
    /\ displayed' = Append(displayed, cnt)
    /\ IF ~SetPositionNamesBound
       THEN /\ error' = NameErrorX
            /\ pc' = AfterRaise
            /\ UNCHANGED <<scene, cnt, mj, mi>>
       ELSE /\ scene' = RendererAdd(scene, [slice_index |-> cnt,
                                            cell |-> <<mj, mi>>])
            /\ cnt' = cnt + 1
            /\ IF cnt' > num_slices
               THEN /\ pc' = "mosaic_break"
                    /\ UNCHANGED <<mj, mi>>
               ELSE /\ pc' = "mosaic_loop"
                    /\ IF mi + 1 < cols
                       THEN mi' = mi + 1 /\ mj' = mj
                       ELSE mi' = 0 /\ mj' = mj + 1
            /\ UNCHANGED error
    /\ UNCHANGED <<aloneVars, argVars, volVars, proc_result, idx, events,
                   outVars, logs, num_slices, rows, cols, animVars>>

\* lines 118-122: the scene is recorded to the output path
MosaicRecord ==
    /\ \/ pc = "mosaic_break"
       \/ pc = "mosaic_loop" /\ mj >= rows
    /\ files' = Append(files, [name |-> "mosaic.png", triple |-> idx])
    /\ disk' = record(disk, displayed, "mosaic.png", <<900, 600>>)
    /\ pc' = "dispatch_anim"
    /\ UNCHANGED <<aloneVars, argVars, volVars, proc_result, idx, error,
                   events, logs, num_slices, mosaicVars, scene, animVars>>

----------------------------------------------------------------------------
(* animate_overlap, lines 149-198, and animate_overlap_with_renderer,      *)
(* lines 200-253.  A frame is named by the axis and index of the slice it  *)
(* was made from; overlay_slices, which cuts the slice, is not in this     *)
(* file.  Lines 172-176 rescale the overlay values of the direct composer  *)
(* and have no part in which slices are taken.                             *)

\* lines 167-189 and 217-235
AnimEnter(v) ==
    LET r == process_image_data(static_img, moved_img, "anim", cast_mode)
        sel == SelectSlices(anim_slice_type, r.overlay.shape)
    IN /\ proc_result' = r
       /\ IF r.status # "ok"
          THEN /\ error' = r.status
               /\ pc' = AfterRaise
               /\ UNCHANGED <<num_slices, scene, animVars>>
          ELSE IF Len(r.overlay.shape) # 4
          THEN /\ error' = UnpackError
               /\ pc' = AfterRaise
               /\ UNCHANGED <<num_slices, scene, animVars>>
          ELSE /\ num_slices' = sel.num_slices
               /\ slice_type' = sel.slice_type
               /\ scene' = <<>>
               /\ slices' = <<>>
               /\ ai' = 0
               /\ variant' = v
               /\ pc' = "anim_loop"
               /\ UNCHANGED <<error, gifs>>

\* lines 191-195: one pass through the loop of the direct composer
AnimDirectStep ==
    /\ pc = "anim_loop"
    /\ variant = "direct"
    /\ ai < num_slices
    /\ slices' = AppendFrame(slices, [slice_type |-> slice_type,
                                      slice_index |-> ai,
                                      in_scene |-> <<>>,
                                      image |-> <<>>])
    /\ ai' = ai + 1
    /\ UNCHANGED <<pc, aloneVars, argVars, volVars, proc_result, idx, error,
                   events, outVars, logs, num_slices, mosaicVars, scene,
                   slice_type, variant, gifs>>

\* lines 237-250: one pass through the loop of the rendered composer
AnimRendererStep ==
    /\ pc = "anim_loop"
    /\ variant = "renderer"
    /\ ai < num_slices
    /\ \E snap \in SnapImages :
         /\ scene' = RendererAdd(scene, [slice_type |-> slice_type,
                                         slice_index |-> ai])
         /\ slices' = AppendFrame(slices,
                [slice_type |-> slice_type,
                 slice_index |-> ai,
                 in_scene |-> [k \in DOMAIN scene' |-> scene'[k].slice_index],
                 image |-> adjust_color_range(snap)])
    /\ ai' = ai + 1
    /\ UNCHANGED <<pc, aloneVars, argVars, volVars, proc_result, idx, error,
                   events, outVars, logs, num_slices, mosaicVars, slice_type,
                   variant, gifs>>

\* lines 198 and 253: write_gif(slices, fname, fps=10)
AnimWrite ==
    /\ pc = "anim_loop"
    /\ ai >= num_slices
    /\ gifs' = Append(gifs, [count |-> Len(slices), fps |-> 10,
                             triple |-> idx])
    /\ files' = Append(files, [name |-> "animation.gif", triple |-> idx])
    /\ disk' = write_gif(disk, slices, "animation.gif")
    /\ pc' = "anim_ret"
    /\ UNCHANGED <<aloneVars, argVars, volVars, proc_result, idx, error,
                   events, logs, num_slices, mosaicVars, scene, slice_type,
                   slices, ai, variant>>

----------------------------------------------------------------------------
(* The animation composers called on their own, on two volumes of the same *)
(* shape                                                                   *)

Ramp(n, step) == [k \in 1..n |-> (k * step) % 256]

Vol(shape, step) ==
    [dtype |-> "uint8", shape |-> shape, data |-> Ramp(Prod(shape), step)]

Selectors == {"saggital", "coronal", "axial", "sagittal", None}

AnimShapes == {<<1, 2, 3>>, <<2, 3, 1>>}

InitAnim ==
    /\ pc = "anim_call"
    /\ \E sh \in AnimShapes :
         /\ static_img = Vol(sh, 20)
         /\ moved_img = Vol(sh, 50)
    /\ anim_slice_type \in Selectors
    /\ cast_mode \in CastModes
    /\ batch = <<>> /\ show_mosaic = FALSE
    /\ idx = 0 /\ events = <<>> /\ files = <<>> /\ disk = NoFiles
    /\ logs = <<>>
    /\ error = "none"
    /\ IdleSolver /\ IdleNorm /\ IdleColor /\ IdleMosaic /\ IdleAnim

CallAnimateOverlap ==
    /\ pc = "anim_call"
    /\ events' = Append(events, <<"animate_overlap", idx>>)
    /\ AnimEnter("direct")
    /\ UNCHANGED <<aloneVars, argVars, volVars, idx, outVars, logs,
                   mosaicVars>>

CallAnimateOverlapWithRenderer ==
    /\ pc = "anim_call"
    /\ events' = Append(events, <<"animate_overlap_with_renderer", idx>>)
    /\ AnimEnter("renderer")
    /\ UNCHANGED <<aloneVars, argVars, volVars, idx, outVars, logs,
                   mosaicVars>>

NextAnim ==
    \/ CallAnimateOverlap
    \/ CallAnimateOverlapWithRenderer
    \/ AnimDirectStep
    \/ AnimRendererStep
    \/ AnimWrite

SpecAnim == InitAnim /\ [][NextAnim]_vars

----------------------------------------------------------------------------
(* run, lines 265-330 *)

ShapeA == <<1, 2, 6>>

ShapeB == <<1, 2, 4>>

ShapeC == <<1, 2, 6, 1>>

StaticVolumes == {Vol(ShapeA, 20), Vol(ShapeB, 20)}

MovingVolumes == {Vol(ShapeA, 50), Vol(ShapeB, 50), Vol(ShapeC, 50)}

Triples == [static : StaticVolumes, moving : MovingVolumes]

Batches == UNION {[1..n -> Triples] : n \in 1..MaxBatch}

Init ==
    /\ pc = "run_loop"
    /\ batch \in Batches
    /\ show_mosaic \in BOOLEAN
    /\ anim_slice_type \in Selectors
    /\ cast_mode \in CastModes
    /\ idx = 1
    /\ events = <<>> /\ files = <<>> /\ disk = NoFiles /\ logs = <<>>
    /\ error = "none"
    /\ IdleSolver /\ IdleVolumes /\ IdleNorm /\ IdleColor /\ IdleMosaic
    /\ IdleAnim

\* lines 301-315: the next triple of the iterator is loaded, or the loop ends
RunNextTriple ==
    /\ pc = "run_loop"
    /\ IF idx > Len(batch)
       THEN /\ pc' = "done"
            /\ UNCHANGED volVars
       ELSE /\ static_img' = batch[idx].static
            /\ moved_img' = batch[idx].moving
            /\ pc' = "check"
    /\ UNCHANGED <<aloneVars, argVars, proc_result, idx, error, events,
                   outVars, logs, num_slices, mosaicVars, scene, animVars>>

\* line 318
RunCheckDimensions ==
    /\ pc = "check"
    /\ events' = Append(events, <<"check_dimensions", idx>>)
    /\ IF check_dimensions(static_img, moved_img) # "ok"
       THEN /\ error' = check_dimensions(static_img, moved_img)
            /\ pc' = AfterRaise
       ELSE /\ pc' = "dispatch_mosaic"
            /\ UNCHANGED error
    /\ UNCHANGED <<aloneVars, argVars, volVars, proc_result, idx, outVars,
                   logs, num_slices, mosaicVars, scene, animVars>>

\* lines 321-323
RunDispatchMosaic ==
    /\ pc = "dispatch_mosaic"
    /\ IF show_mosaic
       THEN MosaicEnter
       ELSE /\ pc' = "dispatch_anim"
            /\ UNCHANGED <<proc_result, error, events, num_slices,
                           mosaicVars, scene>>
    /\ UNCHANGED <<aloneVars, argVars, volVars, idx, outVars, logs, animVars>>

\* lines 325-328
RunDispatchAnim ==
    /\ pc = "dispatch_anim"
    /\ IF anim_slice_type # None
       THEN /\ events' = Append(events,
                                <<"animate_overlap_with_renderer", idx>>)
            /\ AnimEnter("renderer")
       ELSE /\ pc' = "log"
            /\ UNCHANGED <<proc_result, error, events, num_slices, scene,
                           animVars>>
    /\ UNCHANGED <<aloneVars, argVars, volVars, idx, outVars, logs,
                   mosaicVars>>

\* lines 329-330, and the step to the next triple
RunLog ==
    /\ pc \in {"log", "anim_ret"}
    /\ logs' = IF ~show_mosaic /\ anim_slice_type = None
               THEN Append(logs, <<"No options supplied. Exiting.", idx>>)
               ELSE logs
    /\ idx' = idx + 1
    /\ pc' = "run_loop"
    /\ UNCHANGED <<aloneVars, argVars, volVars, proc_result, error, events,
                   outVars, num_slices, mosaicVars, scene, animVars>>

Next ==
    \/ RunNextTriple
    \/ RunCheckDimensions
    \/ RunDispatchMosaic
    \/ MosaicPlace
    \/ MosaicRecord
    \/ RunDispatchAnim
    \/ AnimRendererStep
    \/ AnimWrite
    \/ RunLog

Spec == Init /\ [][Next]_vars

----------------------------------------------------------------------------
(* Properties of the animation composers *)

KnownSelectors == {"saggital", "coronal", "axial"}

\* 0-based axis named by a selector
AxisOf(sel) ==
    IF sel = "saggital" THEN 0 ELSE IF sel = "coronal" THEN 1 ELSE 2

\* length of the selected axis of the static volume, 0 for any other selector
ExpectedFrames ==
    IF anim_slice_type \in KnownSelectors
    THEN static_img.shape[AxisOf(anim_slice_type) + 1]
    ELSE 0

C10_SceneAccumulates ==
    variant = "renderer" =>
        /\ \A i \in DOMAIN slices :
              slices[i].in_scene = [k \in 1..i |-> k - 1]
        /\ pc = "anim_loop" => Len(scene) = ai
        /\ pc = "anim_ret" =>
              /\ Len(scene) = num_slices
              /\ \A k \in DOMAIN scene : scene[k].slice_index = k - 1

\* an axial run of six slices has been rendered
C10_Witness ==
    /\ pc = "anim_ret"
    /\ variant = "renderer"
    /\ num_slices = 6
    /\ Len(scene) = 6
    /\ Len(slices) = 6

----------------------------------------------------------------------------
(* Properties of create_mosaic and run *)

Count(name, k) ==
    Cardinality({i \in DOMAIN events : events[i] = <<name, k>>})

Checked(k) == Count("check_dimensions", k) > 0

Composed(k) ==
    Count("create_mosaic", k) + Count("animate_overlap_with_renderer", k)
        + Count("animate_overlap", k) > 0

HasFile(k) == \E i \in DOMAIN files : files[i].triple = k

RunEnded == pc \in {"done", "raised"}

\* processing of triple k is over
Finished(k) == k < idx \/ (k = idx /\ RunEnded)

NdimDiffer(k) == Len(batch[k].static.shape) # Len(batch[k].moving.shape)

ShapeDiffer(k) == batch[k].static.shape # batch[k].moving.shape

\* the placement loop of create_mosaic is over
MosaicLoopOver ==
    \/ pc = "mosaic_break"
    \/ pc = "mosaic_loop" /\ mj >= rows
    \/ pc = "raised" /\ error = NameErrorX

\* C2: for an overlay of num_slices >= 1 axial slices the placement loop of
\* create_mosaic passes to display(None, None, cnt) exactly the indices
\* 0, 1, ..., num_slices - 1, each once and in ascending order.
C2_MosaicShowsEachSliceOnce ==
    MosaicLoopOver => displayed = [k \in 1..num_slices |-> k - 1]

\* C3 as stated: whenever the static and moving volumes differ in shape, run
\* raises the dimension-mismatch error for that triple before any composer is
\* invoked, so no output file is written for it.
C3_ShapeMismatchRaises ==
    \A k \in DOMAIN batch :
        (Checked(k) /\ ShapeDiffer(k)) =>
            /\ pc = "raised" /\ idx = k /\ error = DimensionMismatch
            /\ ~Composed(k)
            /\ ~HasFile(k)

\* C3 as amended: whenever the static and moving volumes differ in their
\* number of dimensions, run raises the dimension-mismatch error for that
\* triple before any composer is invoked, so no output file is written for
\* it; the error is raised for no other triple.
C3_NdimMismatchRaises ==
    /\ \A k \in DOMAIN batch :
          (Checked(k) /\ NdimDiffer(k)) =>
              /\ pc = "raised" /\ idx = k /\ error = DimensionMismatch
              /\ ~Composed(k)
              /\ ~HasFile(k)
    /\ error = DimensionMismatch => idx \in DOMAIN batch /\ NdimDiffer(idx)
    /\ \A k \in DOMAIN batch :
          (Checked(k) /\ Finished(k) /\ ~NdimDiffer(k)) =>
              error # DimensionMismatch \/ idx # k

\* a triple of a 3-D and a 4-D volume was refused although both outputs were
\* requested
C3_Witness ==
    /\ pc = "raised"
    /\ error = DimensionMismatch
    /\ NdimDiffer(idx)
    /\ show_mosaic
    /\ anim_slice_type = "axial"

\* C7: for each triple that passes the dimension check, run invokes
\* create_mosaic exactly once iff show_mosaic, invokes
\* animate_overlap_with_renderer exactly once iff anim_slice_type is not None,
\* the mosaic composer before the animation composer, only logs 'No options
\* supplied' when neither is requested, and never animate_overlap.  Stated
\* here for the triples of two volumes of one shape, all of which pass the
\* check.
C7_DispatchByFlags ==
    \A k \in DOMAIN batch :
        (Checked(k) /\ ~ShapeDiffer(k) /\ Finished(k)) =>
            /\ Count("create_mosaic", k) = IF show_mosaic THEN 1 ELSE 0
            /\ Count("animate_overlap_with_renderer", k)
                   = IF anim_slice_type # None THEN 1 ELSE 0
            /\ \A i, j \in DOMAIN events :
                   (/\ events[i] = <<"create_mosaic", k>>
                    /\ events[j] = <<"animate_overlap_with_renderer", k>>)
                       => i < j
            /\ (~show_mosaic /\ anim_slice_type = None) <=>
                   (\E i \in DOMAIN logs :
                        logs[i] = <<"No options supplied. Exiting.", k>>)
            /\ Count("animate_overlap", k) = 0

\* C8 as stated: when processing of one triple of a batch fails, run goes on
\* to process every later triple of the batch.
C8_LaterTriplesProcessed ==
    RunEnded => \A k \in DOMAIN batch : Checked(k)

\* C8 as amended: a failure while processing one triple ends run with that
\* exception: no later triple of the batch is loaded, checked, composed or
\* given an output file.
C8_FailureEndsRun ==
    error # "none" =>
        /\ pc = "raised"
        /\ idx \in DOMAIN batch
        /\ static_img = batch[idx].static
        /\ \A k \in DOMAIN batch :
              k > idx => ~Checked(k) /\ ~Composed(k) /\ ~HasFile(k)

\* the first triple of a batch failed and the second, a valid one with
\* outputs requested, was left alone
C8_Witness ==
    /\ pc = "raised"
    /\ idx = 1
    /\ Len(batch) > 1
    /\ ~ShapeDiffer(2)
    /\ anim_slice_type = "axial"
    /\ ~Checked(2)

====
